---- MODULE Spec2Model ----
(***************************************************************************)
(* RAGIndex (src/rag_index.py): a TF-IDF retrieval index over the records  *)
(* of a JSON source.  A text (Python str) is a sequence of one-character   *)
(* strings; a JSON value is a record with a kind tag.  Positions are       *)
(* 1-based here where Python is 0-based.                                   *)
(***************************************************************************)
EXTENDS Integers, Sequences, FiniteSets, TLC

\* Largest number of records of a list source.
MaxDocs == 2

\* top_n of RAGIndex.search.
SearchTopN == 3

----------------------------------------------------------------------------
\* Texts

Cat == <<"c", "a", "t">>
CapCat == <<"C", "a", "t">>
Dog == <<"d", "o", "g">>
Emu == <<"e", "m", "u">>
Space == <<" ">>
Blank == <<>>

\* Characters matched by \w in the texts of the model.
WordChars == {"c", "a", "t", "d", "o", "g", "e", "m", "u", "C"}

\* str.lower on one character.
Lower(c) == IF c = "C" THEN "c" ELSE c

\* The sequence f with its elements evaluated once.
Tuple(f) == SubSeq(f, 1, Len(f))

RECURSIVE Join(_, _)
\* sep.join(parts) for a sequence of texts.
Join(sep, parts) ==
  IF parts = <<>> THEN <<>>
  ELSE IF Len(parts) = 1 THEN parts[1]
  ELSE parts[1] \o sep \o Join(sep, Tail(parts))

----------------------------------------------------------------------------
\* JSON values read by setup

Absent == [kind |-> "absent", str |-> <<>>, list |-> <<>>]
JStr(s) == [kind |-> "str", str |-> s, list |-> <<>>]
JList(l) == [kind |-> "list", str |-> <<>>, list |-> l]

\* d.get(key, ""): the value of the key, the empty string when it is absent.
Get(d, key) == IF d[key].kind = "absent" THEN JStr(Blank) ELSE d[key]

\* repr of a list of str: ['a', 'b'].
Repr(l) ==
  <<"[">> \o Join(<<",", " ">>, [i \in 1..Len(l) |-> <<"'">> \o l[i] \o <<"'">>])
          \o <<"]">>

\* str(v): a str is itself, a list is its repr.
PyStr(v) == IF v.kind = "list" THEN Repr(v.list) ELSE v.str

\* combined = " ".join([str(transcript), str(summary), str(notes)])
Combine(d) ==
  Join(Space, <<PyStr(Get(d, "transcript")), PyStr(Get(d, "summary")),
                PyStr(Get(d, "notes"))>>)

Rec(t, s, n) == [transcript |-> t, summary |-> s, notes |-> n]

\* The records of the model: string fields with an absent one, notes given
\* as a list of strings (what summarize emits), and the record {} with no
\* field, which is read as a single record only.
RecA == Rec(JStr(CapCat \o Space \o Dog), JStr(Cat), Absent)
RecB == Rec(JStr(Dog), Absent, JList(<<Cat, Dog>>))
RecC == Rec(Absent, Absent, Absent)
Records == {RecA, RecB}

\* An element of a JSON array: a mapping (a record) or anything else.
Mapping(r) == [mapping |-> TRUE, rec |-> r]
NonMapping == [mapping |-> FALSE, rec |-> RecC]
Items == {Mapping(r) : r \in Records} \cup {NonMapping}

SeqsUpTo(S, n) == UNION {[1..k -> S] : k \in 0..n}

\* The backing file of json_path: missing, not decodable, a JSON array of
\* items, or one JSON value that is not an array.
MissingSource == [exists |-> FALSE, decodable |-> FALSE, isList |-> FALSE, items |-> <<>>]
UndecodableSource == [exists |-> TRUE, decodable |-> FALSE, isList |-> FALSE, items |-> <<>>]
ListSource(its) == [exists |-> TRUE, decodable |-> TRUE, isList |-> TRUE, items |-> its]
SingleSource(it) == [exists |-> TRUE, decodable |-> TRUE, isList |-> FALSE, items |-> <<it>>]
Sources ==
  {MissingSource, UndecodableSource}
    \cup {ListSource(its) : its \in SeqsUpTo(Items, MaxDocs)}
    \cup {SingleSource(it) : it \in Items \cup {Mapping(RecC)}}

----------------------------------------------------------------------------
\* TfidfVectorizer

RECURSIVE Scan(_, _)
\* The tokens of a lower-cased text: the maximal runs of two or more word
\* characters (token_pattern (?u)\b\w\w+\b); cur is the run being read.
Scan(s, cur) ==
  LET flush == IF Len(cur) >= 2 THEN <<cur>> ELSE <<>>
  IN IF s = <<>> THEN flush
     ELSE IF Head(s) \in WordChars THEN Scan(Tail(s), Append(cur, Lower(Head(s))))
     ELSE flush \o Scan(Tail(s), <<>>)

Tokenize(text) == Scan(text, <<>>)

\* Number of occurrences of term in a token sequence.
Count(term, toks) == Cardinality({i \in 1..Len(toks) : toks[i] = term})

\* Alphabetical order of the characters of the terms.
Alphabet == <<"a", "c", "d", "e", "g", "m", "o", "t", "u">>
Rank(c) == CHOOSE i \in 1..Len(Alphabet) : Alphabet[i] = c

RECURSIVE LexLess(_, _)
LexLess(a, b) ==
  IF b = <<>> THEN FALSE
  ELSE IF a = <<>> THEN TRUE
  ELSE IF Rank(Head(a)) # Rank(Head(b)) THEN Rank(Head(a)) < Rank(Head(b))
  ELSE LexLess(Tail(a), Tail(b))

\* The terms of a set in sorted order: column j of the matrix is term j.
Sorted(terms) ==
  CHOOSE s \in [1..Cardinality(terms) -> terms] :
    /\ \A i, j \in DOMAIN s : i < j => LexLess(s[i], s[j])

\* idf = ln((1 + n) / (1 + df)) + 1 in tenths, rounded; row n, column df.
IdfTable ==
  << <<10>>,
     <<14, 10>>,
     <<17, 13, 10>>,
     <<19, 15, 12, 10>>,
     <<21, 17, 14, 12, 10>> >>
Idf(n, df) == IdfTable[n][df]

\* TfidfVectorizer(): nothing fitted.
NewVectorizer == [fitted |-> FALSE, vocabulary_ |-> <<>>, idf_ |-> <<>>]

NoneMatrix == [isNone |-> TRUE, ncols |-> 0, rows |-> <<>>]

\* vectorizer.fit_transform(docs).  The vocabulary and the weights are
\* computed from docs alone; an empty vocabulary raises before anything of
\* the vectorizer is assigned.  Rows hold tf * idf; the l2 normalisation of
\* a row is a positive scaling, which cosine_similarity undoes.
FitTransform(vectorizer, docs) ==
  LET n == Len(docs)
      toks == Tuple([i \in 1..n |-> Tokenize(docs[i])])
      terms == UNION {{toks[i][k] : k \in 1..Len(toks[i])} : i \in 1..n}
      vocab == Sorted(terms)
      df(j) == Cardinality({i \in 1..n : Count(vocab[j], toks[i]) > 0})
      idf == Tuple([j \in 1..Len(vocab) |-> Idf(n, df(j))])
  IN IF terms = {}
     THEN [err |-> "ValueError:empty_vocabulary", vectorizer |-> vectorizer,
           X |-> NoneMatrix]
     ELSE [err |-> "ok",
           vectorizer |-> [fitted |-> TRUE, vocabulary_ |-> vocab, idf_ |-> idf],
           X |-> [isNone |-> FALSE, ncols |-> Len(vocab),
                  rows |-> Tuple([i \in 1..n |->
                             Tuple([j \in 1..Len(vocab) |->
                                      Count(vocab[j], toks[i]) * idf[j]])])]]

\* vectorizer.transform([query]): the counts of the fitted terms in the
\* query times their idf; a term outside the vocabulary is dropped.
Transform(vectorizer, query) ==
  LET toks == Tokenize(query)
  IN Tuple([j \in 1..Len(vectorizer.vocabulary_) |->
              Count(vectorizer.vocabulary_[j], toks) * vectorizer.idf_[j]])

RECURSIVE SumTo(_, _)
\* f[1] + ... + f[n]
SumTo(f, n) == IF n = 0 THEN 0 ELSE f[n] + SumTo(f, n - 1)

Dot(u, v) == SumTo(Tuple([j \in 1..Len(u) |-> u[j] * v[j]]), Len(u))

RECURSIVE FracLess(_, _, _, _)
\* a/b < c/d for a, c >= 0 and b, d > 0, by continued fractions (no product).
FracLess(a, b, c, d) ==
  IF a \div b # c \div d THEN a \div b < c \div d
  ELSE IF c % d = 0 THEN FALSE
  ELSE IF a % b = 0 THEN TRUE
  ELSE FracLess(d, c % d, b, a % b)

\* cosine_similarity(query_vec, matrix).flatten(): for each row the squared
\* cosine dot^2 / (|q|^2 |d|^2) as a fraction, 0 when a norm is 0.
CosineSimilarity(query_vec, matrix) ==
  Tuple([i \in 1..Len(matrix.rows) |->
     LET d == matrix.rows[i]
         nq == Dot(query_vec, query_vec)
         nd == Dot(d, d)
         qd == Dot(query_vec, d)
     IN IF nq = 0 \/ nd = 0 THEN [num |-> 0, den |-> 1]
        ELSE [num |-> qd * qd, den |-> nq * nd]])

SimLess(x, y) == FracLess(x.num, x.den, y.num, y.den)

Orders(n) == {p \in [1..n -> 1..n] : \A i, j \in 1..n : i # j => p[i] # p[j]}

\* similarities.argsort(): the orders that sort the similarities ascending.
\* The default sort is not stable: the order among equal similarities is
\* whatever the build's sort produces.
Argsort(sims) ==
  {p \in Orders(Len(sims)) :
     \A i, j \in 1..Len(sims) : i < j => ~SimLess(sims[p[j]], sims[p[i]])}

\* seq[::-1]
Reverse(seq) == Tuple([i \in 1..Len(seq) |-> seq[Len(seq) + 1 - i]])

\* seq[:n]: the first n elements, all but the last -n for a negative n.
SliceTo(seq, n) ==
  LET stop == IF n >= 0 THEN (IF n < Len(seq) THEN n ELSE Len(seq))
              ELSE (IF Len(seq) + n > 0 THEN Len(seq) + n ELSE 0)
  IN SubSeq(seq, 1, stop)

NewLines == <<"\n", "\n">>

----------------------------------------------------------------------------
\* RAGIndex

\* Query texts: a term of the documents, and one outside every vocabulary.
Queries == {Cat, Emu}
TopNs == -1 .. MaxDocs + 1

VARIABLES
  documents,     \* self.documents
  vectorizer,    \* self.vectorizer
  tfidf_matrix,  \* self.tfidf_matrix
  last,          \* the last completed call: its arguments and its outcome
  installed,     \* the source read by the most recent successful setup
  rebuilt,       \* a successful setup has replaced an earlier built state
  spc, sloc,     \* a setup running step by step: position and locals
  qpc, qloc      \* a query running step by step: position and locals

vars == <<documents, vectorizer, tfidf_matrix, last, installed, rebuilt,
          spc, sloc, qpc, qloc>>

NoCall ==
  [op |-> "none", src |-> MissingSource, query |-> <<>>, top_n |-> 0,
   err |-> "ok", top_indices |-> <<>>, top_docs |-> <<>>, ret |-> <<>>]

NoSetupLocals == [src |-> MissingSource, i |-> 0, X |-> NoneMatrix, err |-> "ok"]
NoQueryLocals ==
  [query |-> <<>>, top_n |-> 0, query_vec |-> <<>>, top_indices |-> <<>>,
   atStart |-> MissingSource,
   err |-> "ok", top_docs |-> <<>>, ret |-> <<>>]

\* RAGIndex(json_path)
Init ==
  /\ documents = <<>>
  /\ vectorizer = NewVectorizer
  /\ tfidf_matrix = NoneMatrix
  /\ last = NoCall
  /\ installed = [built |-> FALSE, src |-> MissingSource]
  /\ rebuilt = FALSE
  /\ spc = "idle" /\ sloc = NoSetupLocals
  /\ qpc = "idle" /\ qloc = NoQueryLocals

\* A list branch that appends to the documents of the earlier setup.
KeepDocuments(docs) == docs

\* self.documents = [] at the head of the list branch.
ClearDocuments(docs) == <<>>

RECURSIVE LoadLoop(_, _)
\* for d in data: append the combined text of d; d.get on an element that
\* is not a mapping raises, leaving what was appended so far.
LoadLoop(docs, items) ==
  IF items = <<>> THEN [documents |-> docs, err |-> "ok"]
  ELSE IF ~Head(items).mapping THEN [documents |-> docs, err |-> "AttributeError"]
  ELSE LoadLoop(Append(docs, Combine(Head(items).rec)), Tail(items))

\* The two branches of setup on the decoded data.
Load(docs, data) ==
  IF data.isList THEN LoadLoop(ClearDocuments(docs), data.items)
  ELSE IF data.items[1].mapping
       THEN [documents |-> <<Combine(data.items[1].rec)>>, err |-> "ok"]
       ELSE [documents |-> docs, err |-> "AttributeError"]

\* setup() run to its end on a source: the fields it leaves and its outcome.
SetupRun(docs, vec, matrix, src) ==
  LET unchanged(e) == [documents |-> docs, vectorizer |-> vec, tfidf_matrix |-> matrix, err |-> e]
      loaded == Load(docs, src)
      fit == FitTransform(vec, loaded.documents)
  IN IF ~src.exists THEN unchanged("FileNotFoundError")
     ELSE IF ~src.decodable THEN unchanged("JSONDecodeError")
     ELSE IF loaded.err # "ok"
          THEN [unchanged(loaded.err) EXCEPT !.documents = loaded.documents]
     ELSE IF fit.err # "ok"
          THEN [unchanged(fit.err) EXCEPT !.documents = loaded.documents]
     ELSE [documents |-> loaded.documents, vectorizer |-> fit.vectorizer,
           tfidf_matrix |-> fit.X, err |-> "ok"]

Idle == spc = "idle" /\ qpc = "idle"

\* rag.setup() with the backing file holding src.
Setup(src) ==
  /\ Idle
  /\ LET r == SetupRun(documents, vectorizer, tfidf_matrix, src)
     IN /\ documents' = r.documents
        /\ vectorizer' = r.vectorizer
        /\ tfidf_matrix' = r.tfidf_matrix
        /\ last' = [NoCall EXCEPT !.op = "setup", !.src = src, !.err = r.err]
        /\ installed' = IF r.err = "ok" THEN [built |-> TRUE, src |-> src] ELSE installed
        /\ rebuilt' = (rebuilt \/ (r.err = "ok" /\ installed.built /\ installed.src # src))
  /\ UNCHANGED <<spc, sloc, qpc, qloc>>

\* A query that never takes the matrix for None.
NeverNone(matrix) == FALSE

\* if self.tfidf_matrix is None
NotInitialized(matrix) == matrix.isNone

\* Indexing or iterating a str yields its one-character strings.
Elements(ret) == [k \in 1..Len(ret) |-> <<ret[k]>>]

\* context[0] in ask_chatbot of chatbot.py, for a non-empty context.
ChatbotContext(ret) == Elements(ret)[1]

\* top_docs = [self.documents[i] for i in top_indices]; "\n\n".join(top_docs)
Select(docs, top_indices) ==
  IF \E k \in 1..Len(top_indices) : top_indices[k] > Len(docs)
  THEN [err |-> "IndexError", top_docs |-> <<>>, ret |-> <<>>]
  ELSE LET top_docs == Tuple([k \in 1..Len(top_indices) |-> docs[top_indices[k]]])
       IN [err |-> "ok", top_docs |-> top_docs, ret |-> Join(NewLines, top_docs)]

\* The top_indices query can compute: argsort()[::-1][:top_n].
TopIndices(query_vec, matrix, top_n) ==
  LET similarities == CosineSimilarity(query_vec, matrix)
  IN {SliceTo(Reverse(p), top_n) : p \in Argsort(similarities)}

\* query(query, top_n) run to its end: the outcomes it can have.
QueryRun(docs, vec, matrix, query, top_n) ==
  LET fail(e) == [err |-> e, top_indices |-> <<>>, top_docs |-> <<>>, ret |-> <<>>]
      query_vec == Transform(vec, query)
  IN IF NotInitialized(matrix) THEN {fail("ValueError:not_initialized")}
     ELSE IF ~vec.fitted THEN {fail("NotFittedError")}
     ELSE IF Len(query_vec) # matrix.ncols THEN {fail("ValueError:dimension")}
     ELSE {[top_indices |-> ti] @@ Select(docs, ti)
             : ti \in TopIndices(query_vec, matrix, top_n)}

\* rag.query(query, top_n)
Query(query, top_n) ==
  /\ Idle
  /\ \E r \in QueryRun(documents, vectorizer, tfidf_matrix, query, top_n) :
       last' = [NoCall EXCEPT !.op = "query", !.query = query, !.top_n = top_n,
                              !.err = r.err, !.top_indices = r.top_indices,
                              !.top_docs = r.top_docs, !.ret = r.ret]
  /\ UNCHANGED <<documents, vectorizer, tfidf_matrix, installed, rebuilt,
                 spc, sloc, qpc, qloc>>

\* rag.search(query)
Search(query) == Query(query, SearchTopN)

SetupCall == \E src \in Sources : Setup(src)
QueryCall == \E query \in Queries, top_n \in TopNs : Query(query, top_n)
SearchCall == \E query \in Queries : Search(query)

Next == SetupCall \/ QueryCall \/ SearchCall

Spec == Init /\ [][Next]_vars

----------------------------------------------------------------------------
\* Properties of setup and query called one after the other (Spec)

Built == ~tfidf_matrix.isNone

Range(seq) == {seq[i] : i \in 1..Len(seq)}

\* The fields query reads.
Bundle == [documents |-> documents, vectorizer |-> vectorizer, tfidf_matrix |-> tfidf_matrix]

\* The corpus a source denotes, and the bundle a new RAGIndex holds after a
\* successful setup on it.
Corpus(src) == Load(<<>>, src).documents
BundleOf(src) ==
  LET fit == FitTransform(NewVectorizer, Corpus(src))
  IN [documents |-> Corpus(src), vectorizer |-> fit.vectorizer, tfidf_matrix |-> fit.X]
NewBundle == [documents |-> <<>>, vectorizer |-> NewVectorizer, tfidf_matrix |-> NoneMatrix]

EmptyListSource == ListSource(<<>>)

\* C1: after any sequence of setup and query calls, the documents, the
\* vocabulary and the vectors that query reads are the bundle of the most
\* recent successful setup (of the constructor when there was none): a
\* failed setup changes none of them.
C1_BundleOfLastSuccessfulSetup ==
  Bundle = IF installed.built THEN BundleOf(installed.src) ELSE NewBundle

\* C2: the index is Unbuilt (matrix None) or Built; a query in a state
\* reached without a successful setup fails with NotBuilt; only a successful
\* setup moves Unbuilt to Built; no step moves Built to Unbuilt.
C2_TwoStates ==
  [][/\ (tfidf_matrix'.isNone /\ last'.op = "query")
          => last'.err = "ValueError:not_initialized"
     /\ (tfidf_matrix.isNone /\ ~tfidf_matrix'.isNone)
          => (last'.op = "setup" /\ last'.err = "ok")
     /\ ~tfidf_matrix.isNone => ~tfidf_matrix'.isNone
     /\ tfidf_matrix'.isNone <=> ~installed'.built]_vars

\* A failed setup has run on a Built index, which is still Built.
C2_Witness ==
  /\ Built
  /\ last.op = "setup" /\ last.err # "ok"

\* C4: the documents of a query's result are in descending similarity, and
\* documents of equal similarity are in Corpus order.
C4_DescendingStable ==
  (last.op = "query" /\ last.err = "ok") =>
    LET sims == CosineSimilarity(Transform(vectorizer, last.query), tfidf_matrix)
        ti == last.top_indices
    IN \A a, b \in 1..Len(ti) : a < b =>
         /\ ~SimLess(sims[ti[a]], sims[ti[b]])
         /\ ~SimLess(sims[ti[b]], sims[ti[a]]) => ti[a] < ti[b]

\* C5: on a Built index a query with top_n >= 1 raises nothing and returns
\* top_n documents, or, when top_n exceeds the Corpus size, every Corpus
\* member exactly once.
C5_TopNClamped ==
  (last.op = "query" /\ Built /\ last.top_n >= 1) =>
    LET corpus == Corpus(installed.src)
        n == Len(corpus)
        ti == last.top_indices
    IN /\ last.err = "ok"
       /\ Len(last.top_docs) = IF last.top_n > n THEN n ELSE last.top_n
       /\ \A k \in 1..Len(ti) : ti[k] \in 1..n /\ last.top_docs[k] = corpus[ti[k]]
       /\ \A k, m \in 1..Len(ti) : k # m => ti[k] # ti[m]

\* C6: on a Built index a query with top_n <= 0 fails (InvalidTopN) and
\* returns no document.
C6_InvalidTopN ==
  (last.op = "query" /\ Built /\ last.top_n <= 0) =>
    (last.err # "ok" /\ last.top_docs = <<>>)

\* C7: setup over an empty sequence of records fails; an Unbuilt index
\* stays Unbuilt, and a Built index keeps its documents, vocabulary and
\* vectors as they were.
C7_EmptyCorpusKeepsState ==
  [][(last'.op = "setup" /\ last'.src = EmptyListSource) =>
       /\ last'.err # "ok"
       /\ tfidf_matrix.isNone => tfidf_matrix'.isNone
       /\ ~tfidf_matrix.isNone => UNCHANGED <<documents, vectorizer, tfidf_matrix>>]_vars

\* C8: every element of what query returns is the full text of one Corpus
\* document, and so is the context[0] that ask_chatbot passes on.
C8_ElementsAreDocuments ==
  (last.op = "query" /\ last.err = "ok") =>
    /\ \A k \in 1..Len(last.ret) : Elements(last.ret)[k] \in Range(documents)
    /\ last.ret # <<>> => ChatbotContext(last.ret) \in Range(documents)

\* C9: the state a successful setup installs is the state a new index has
\* after setup on the same source, whatever calls came before.
C9_SetupDependsOnSourceOnly ==
  (last.op = "setup" /\ last.err = "ok") => Bundle = BundleOf(last.src)

\* A successful setup has replaced the state installed from another source.
C9_Witness ==
  /\ last.op = "setup" /\ last.err = "ok"
  /\ rebuilt

\* The Document the loader is to produce for a record: transcript, summary
\* and notes joined with single spaces, an absent field the empty string, a
\* notes sequence flattened by joining its elements with sep.
Flatten(v, sep) ==
  IF v.kind = "list" THEN Join(sep, v.list) ELSE v.str
DocumentOf(d, sep) ==
  Join(Space, <<Flatten(d.transcript, sep), Flatten(d.summary, sep),
                Flatten(d.notes, sep)>>)

\* C10: a successful setup holds one Document per record, in input order,
\* each the record's fields joined with single spaces, notes given as a
\* sequence joined into one string (with some separator).
C10_OneDocumentPerRecord ==
  (last.op = "setup" /\ last.err = "ok") =>
    /\ Len(documents) = Len(last.src.items)
    /\ \A i \in 1..Len(documents) :
         \E sep \in {Blank, Space, <<"\n">>} :
           documents[i] = DocumentOf(last.src.items[i].rec, sep)

----------------------------------------------------------------------------
\* One setup and one query on a shared index, interleaved statement by
\* statement (the module-level rag of extract_tasks.py; neither method
\* takes a lock).

\* The sources on which setup of a new index succeeds.
OkSources ==
  {src \in Sources :
     SetupRun(<<>>, NewVectorizer, NoneMatrix, src).err = "ok"}

\* A Built index with no call in progress: the state after RAGIndex(path)
\* and a successful setup.
InitConc ==
  \E src \in OkSources :
    LET r == SetupRun(<<>>, NewVectorizer, NoneMatrix, src)
    IN /\ documents = r.documents
       /\ vectorizer = r.vectorizer
       /\ tfidf_matrix = r.tfidf_matrix
       /\ last = [NoCall EXCEPT !.op = "setup", !.src = src]
       /\ installed = [built |-> TRUE, src |-> src]
       /\ rebuilt = FALSE
       /\ spc = "start" /\ sloc = NoSetupLocals
       /\ qpc = "start" /\ qloc = NoQueryLocals

SetupRaises(e) ==
  /\ spc' = "done"
  /\ sloc' = [sloc EXCEPT !.err = e]

\* setup: the file is looked up, opened and decoded.
SOpen(src) ==
  /\ spc = "start"
  /\ IF ~src.exists THEN SetupRaises("FileNotFoundError")
     ELSE IF ~src.decodable THEN SetupRaises("JSONDecodeError")
     ELSE /\ spc' = IF src.isList THEN "clear" ELSE "single"
          /\ sloc' = [sloc EXCEPT !.src = src]
  /\ UNCHANGED <<documents, vectorizer, tfidf_matrix, last, installed, rebuilt, qpc, qloc>>

\* setup: self.documents = []
SClear ==
  /\ spc = "clear"
  /\ documents' = ClearDocuments(documents)
  /\ sloc' = [sloc EXCEPT !.i = 1]
  /\ spc' = IF sloc.src.items = <<>> THEN "fit" ELSE "append"
  /\ UNCHANGED <<vectorizer, tfidf_matrix, last, installed, rebuilt, qpc, qloc>>

\* setup: one turn of the loop, self.documents.append(combined).
SAppend ==
  /\ spc = "append"
  /\ LET d == sloc.src.items[sloc.i]
     IN IF ~d.mapping
        THEN SetupRaises("AttributeError") /\ UNCHANGED documents
        ELSE /\ documents' = Append(documents, Combine(d.rec))
             /\ sloc' = [sloc EXCEPT !.i = sloc.i + 1]
             /\ spc' = IF sloc.i = Len(sloc.src.items) THEN "fit" ELSE "append"
  /\ UNCHANGED <<vectorizer, tfidf_matrix, last, installed, rebuilt, qpc, qloc>>

\* setup: the branch of a single record, self.documents = [combined].
SSingle ==
  /\ spc = "single"
  /\ LET d == sloc.src.items[1]
     IN IF ~d.mapping
        THEN SetupRaises("AttributeError") /\ UNCHANGED documents
        ELSE /\ documents' = <<Combine(d.rec)>>
             /\ spc' = "fit"
             /\ UNCHANGED sloc
  /\ UNCHANGED <<vectorizer, tfidf_matrix, last, installed, rebuilt, qpc, qloc>>

\* setup: self.vectorizer.fit_transform(self.documents) fits the shared
\* vectorizer; its result is not yet assigned.
SFit ==
  /\ spc = "fit"
  /\ LET fit == FitTransform(vectorizer, documents)
     IN IF fit.err # "ok"
        THEN SetupRaises(fit.err) /\ UNCHANGED vectorizer
        ELSE /\ vectorizer' = fit.vectorizer
             /\ sloc' = [sloc EXCEPT !.X = fit.X]
             /\ spc' = "assign"
  /\ UNCHANGED <<documents, tfidf_matrix, last, installed, rebuilt, qpc, qloc>>

\* setup: self.tfidf_matrix = <the result of fit_transform>
SAssign ==
  /\ spc = "assign"
  /\ tfidf_matrix' = sloc.X
  /\ installed' = [built |-> TRUE, src |-> sloc.src]
  /\ spc' = "done"
  /\ UNCHANGED <<documents, vectorizer, last, rebuilt, sloc, qpc, qloc>>

QueryRaises(e) ==
  /\ qpc' = "done"
  /\ qloc' = [qloc EXCEPT !.err = e]

\* query: the check of self.tfidf_matrix against None.
QStart(query, top_n) ==
  /\ qpc = "start"
  /\ IF NotInitialized(tfidf_matrix)
     THEN QueryRaises("ValueError:not_initialized")
     ELSE /\ qpc' = "transform"
          /\ qloc' = [qloc EXCEPT !.query = query, !.top_n = top_n,
                                  !.atStart = installed.src]
  /\ UNCHANGED <<documents, vectorizer, tfidf_matrix, last, installed, rebuilt, spc, sloc>>

\* query: query_vec = self.vectorizer.transform([query])
QTransform ==
  /\ qpc = "transform"
  /\ qloc' = [qloc EXCEPT !.query_vec = Transform(vectorizer, qloc.query)]
  /\ qpc' = "cosine"
  /\ UNCHANGED <<documents, vectorizer, tfidf_matrix, last, installed, rebuilt, spc, sloc>>

\* query: the similarities to self.tfidf_matrix and top_indices;
\* cosine_similarity raises when the column counts differ.
QCosine ==
  /\ qpc = "cosine"
  /\ IF Len(qloc.query_vec) # tfidf_matrix.ncols
     THEN QueryRaises("ValueError:dimension")
     ELSE /\ \E ti \in TopIndices(qloc.query_vec, tfidf_matrix, qloc.top_n) :
               qloc' = [qloc EXCEPT !.top_indices = ti]
          /\ qpc' = "select"
  /\ UNCHANGED <<documents, vectorizer, tfidf_matrix, last, installed, rebuilt, spc, sloc>>

\* query: top_docs from self.documents, and the joined result.
QSelect ==
  /\ qpc = "select"
  /\ LET r == Select(documents, qloc.top_indices)
     IN qloc' = [qloc EXCEPT !.err = r.err, !.top_docs = r.top_docs, !.ret = r.ret]
  /\ qpc' = "done"
  /\ UNCHANGED <<documents, vectorizer, tfidf_matrix, last, installed, rebuilt, spc, sloc>>

SOpenCall == \E src \in Sources : SOpen(src)
QStartCall == \E query \in Queries, top_n \in TopNs : QStart(query, top_n)

NextConc ==
  \/ SOpenCall \/ SClear \/ SAppend \/ SSingle \/ SFit \/ SAssign
  \/ QStartCall \/ QTransform \/ QCosine \/ QSelect

SpecConc == InitConc /\ [][NextConc]_vars

\* The bundles a query started on atStart may answer from while a setup
\* that read sloc.src runs: that of atStart (V1) and that of sloc.src (V2).
Versions ==
  {BundleOf(qloc.atStart)} \cup
    (IF sloc.src \in OkSources THEN {BundleOf(sloc.src)} ELSE {})

\* C3: a query that runs while a setup runs on the same index computes its
\* result from the documents, vocabulary and vectors of one state, V1 or
\* V2: its outcome is one the query has on V1 or one it has on V2.
C3_QueryAnswersFromOneVersion ==
  (qpc = "done" /\ qloc.err # "ValueError:not_initialized") =>
    \E b \in Versions :
      [err |-> qloc.err, top_indices |-> qloc.top_indices,
       top_docs |-> qloc.top_docs, ret |-> qloc.ret]
        \in QueryRun(b.documents, b.vectorizer, b.tfidf_matrix, qloc.query, qloc.top_n)

====
